---- MODULE Spec2Model ----
(***************************************************************************)
(* Model of create_issue_19_pr.py: the module's start-up (imports and the  *)
(* import guard), get_github_client, create_pull_request and main, run     *)
(* against a remote that records every call made to it.                    *)
(*                                                                         *)
(* Python values: an optional value (None or a value) is a sequence of     *)
(* length at most one; a formatted string is the sequence of its literal   *)
(* and interpolated pieces, in order.                                      *)
(***************************************************************************)
EXTENDS Integers, Sequences, FiniteSets, TLC

VARIABLES
    mode,            \* "script": run as __main__;  "import": imported, then called
    dotenvInstalled, \* whether `from dotenv import load_dotenv` can succeed
    githubInstalled, \* whether `from github import Github` can succeed
    env,             \* process environment after load_dotenv()
    pc,              \* position in the program
    args,            \* parameters of the current create_pull_request call
    g,               \* the client built by get_github_client (None before)
    pr,              \* the PR object returned by create_pull (None before)
    idx,             \* position of the `for label_name in labels` loop
    label_objects,   \* list built by the loop
    exc,             \* the exception in flight inside the try (None if none)
    escaped,         \* an exception left create_pull_request
    result,          \* the value create_pull_request returned (None before)
    log,             \* remote calls made by the current invocation, in order
    out,             \* lines printed to standard output
    exitStatus,      \* exit status of the process (None while running)
    remote,          \* pull requests on the remote; the number is the position
    prev,            \* the preceding invocation: its parameters and outcome
    ncalls           \* invocations started so far

vars == <<mode, dotenvInstalled, githubInstalled, env, pc, args, g, pr, idx,
          label_objects, exc, escaped, result, log, out, exitStatus, remote,
          prev, ncalls>>

\* ---------------------------------------------------------------- bounds
MaxCalls == 2
MaxLabels == 2

\* ------------------------------------------------------- python values
None == <<>>
Some(v) == <<v>>
IsNone(o) == o = <<>>
Val(o) == o[1]

\* truth value of an optional string: None and "" are falsy
Truthy(o) == ~IsNone(o) /\ Val(o) # ""

\* truth value of an optional list: None and [] are falsy
ListTruthy(o) == ~IsNone(o) /\ Val(o) # <<>>

\* `a or b`
PyOr(a, b) == IF Truthy(a) THEN a ELSE b

\* ------------------------------------------------------------ inputs
ProductTokens == {None, Some(""), Some("ghp_product")}
GithubTokens == {None, Some(""), Some("ghp_fallback")}
Envs == [PRODUCT_GITHUB_TOKEN : ProductTokens, GITHUB_TOKEN : GithubTokens]

LabelNames == {"bug", "needs-review"}
RECURSIVE SeqsUpTo(_, _)
SeqsUpTo(S, n) ==
    IF n = 0 THEN {<<>>}
    ELSE LET shorter == SeqsUpTo(S, n - 1)
         IN  shorter \cup {Append(s, x) : s \in {t \in shorter : Len(t) = n - 1}, x \in S}
LabelArgs == {None} \cup {Some(s) : s \in SeqsUpTo(LabelNames, MaxLabels)}

Heads == {"feature/x", "feature/y"}
DefaultBase == "staging"
Bases == {DefaultBase}

\* messages of the exceptions the remote raises
RepoErrors == {"404 Not Found"}
AlreadyExists == "422 A pull request already exists"
CreateErrors == {"422 Validation Failed", AlreadyExists}
LabelErrors == {"404 Label not found"}
AddErrors == {"403 Forbidden"}
FormatErrors == {"502 Bad Gateway"}

\* --------------------------------------------------------- the script
MissingTokenMessage == "PRODUCT_GITHUB_TOKEN or GITHUB_TOKEN not found in environment variables"
NotInstalledLine == <<"Error: PyGithub not installed. Install with: pip install PyGithub">>

\* mutant: the fallback variable is looked up first
LookupTokenFallbackFirst(e) == PyOr(e.GITHUB_TOKEN, e.PRODUCT_GITHUB_TOKEN)

\* os.getenv("PRODUCT_GITHUB_TOKEN") or os.getenv("GITHUB_TOKEN")
LookupToken(e) == PyOr(e.PRODUCT_GITHUB_TOKEN, e.GITHUB_TOKEN)

\* mutant: `if token is None`, which lets an empty token through
TokenMissingOnlyNone(token) == IsNone(token)

\* `if not token: raise ValueError(...)`
TokenMissing(token) == ~Truthy(token)

\* keyword arguments of repo.create_pull
CreatePullArgs(a) == <<a.title, a.body, a.head, a.base>>

\* f"Successfully created PR #{pr.number}: {pr.html_url}"
SuccessString(p) == <<"Successfully created PR #", ToString(p.number), ": ", p.html_url>>

\* mutant: the message is left out of the error string
ErrorStringNoMessage(e) == <<"Error creating GitHub PR: ", "">>

\* f"Error creating GitHub PR: {str(e)}"
ErrorString(e) == <<"Error creating GitHub PR: ", e>>

\* f"Warning: Could not find label '{label_name}': {e}"
WarningLine(name, e) == <<"Warning: Could not find label '", name, "': ", e>>

\* mutant: the handler re-raises
HandlerReraise(e) == [result |-> None, escaped |-> TRUE]

\* mutant: `except Exception: pass`, the function returns None
HandlerSwallow(e) == [result |-> None, escaped |-> FALSE]

\* `except Exception as e: return ...` of create_pull_request
Handler(e) == [result |-> Some(ErrorString(e)), escaped |-> FALSE]

\* mutant: the label block runs before the outcome of create_pull is looked at
AfterCreatePullLabelsFirst(ok, labels) ==
    IF ListTruthy(labels) THEN "get_label"
    ELSE IF ok THEN "format" ELSE "except"

\* where control goes after repo.create_pull
AfterCreatePull(ok, labels) ==
    IF ~ok THEN "except"
    ELSE IF ListTruthy(labels) THEN "get_label" ELSE "format"

\* mutant: no inner handler, a get_label failure reaches the outer one
LabelHandlerReraise(name, e) == [printed |-> <<>>, reraise |-> TRUE]

\* the inner `except Exception as e: print(...)` around repo.get_label
LabelHandler(name, e) == [printed |-> <<WarningLine(name, e)>>, reraise |-> FALSE]

\* mutant: the loop skips every other label
NextLabelIndexSkip(i) == i + 2

\* the loop's step
NextLabelIndex(i) == i + 1

\* mutant: the batch call is made without the guard
AttachAlways(objs) == TRUE

\* `if label_objects:` guards the batch call
AttachNeeded(objs) == objs # <<>>

\* mutant: sys.exit(1) when the result is the error string
MainExitStatusFromResult(r) ==
    IF r # None /\ Val(r)[1] = "Error creating GitHub PR: " THEN 1 ELSE 0

\* exit status of a run of main that returned
MainExitStatus(r) == 0

\* main's literals
MainArgs ==
    [repo_name |-> "bcolemanau/agent-chat-ui",
     title |-> "feat(issue-19): Concept brief and hydration diff views with horizontal layout",
     body |-> "## Issue #19: Concept Brief and Hydration UI Components ...",
     head |-> "feature/issue-19-hydration-preview-view",
     base |-> "staging",
     labels |-> Some(<<>>)]

NoArgs == [repo_name |-> "", title |-> "", body |-> "", head |-> "", base |-> "",
           labels |-> None]

\* the remote's PR object for the n-th pull request of a repository
PullRequest(repo_name, n) ==
    [number |-> n,
     html_url |-> "https://github.com/" \o repo_name \o "/pull/" \o ToString(n)]

\* one recorded remote call: the operation, its arguments, whether it succeeded
Call(op, a, ok) == [op |-> op, args |-> a, ok |-> ok]

\* the remote already holds a pull request for the same head and base
Exists(head, base) == \E k \in 1..Len(remote) :
                          remote[k].head = head /\ remote[k].base = base

IsSuccess(r) == ~IsNone(r) /\ Val(r)[1] = "Successfully created PR #"

\* ------------------------------------------------------------- Init
Init ==
    /\ mode \in {"script", "import"}
    /\ dotenvInstalled \in BOOLEAN
    /\ githubInstalled \in BOOLEAN
    /\ env \in Envs
    /\ pc = "import_dotenv"
    /\ args = NoArgs
    /\ g = None
    /\ pr = None
    /\ idx = 1
    /\ label_objects = <<>>
    /\ exc = None
    /\ escaped = FALSE
    /\ result = None
    /\ log = <<>>
    /\ out = <<>>
    /\ exitStatus = None
    /\ remote = <<>>
    /\ prev = None
    /\ ncalls = 0

\* ---------------------------------------------------------- start-up
\* `from dotenv import load_dotenv`: unguarded, an ImportError ends the
\* process with a traceback on standard error and status 1
ImportDotenv ==
    /\ pc = "import_dotenv"
    /\ IF dotenvInstalled
       THEN pc' = "import_github" /\ UNCHANGED exitStatus
       ELSE pc' = "exited" /\ exitStatus' = Some(1)
    /\ UNCHANGED <<mode, dotenvInstalled, githubInstalled, env, args, g, pr, idx,
                   label_objects, exc, escaped, result, log, out, remote, prev, ncalls>>

\* the guarded import of the client library
ImportGithub ==
    /\ pc = "import_github"
    /\ IF githubInstalled
       THEN pc' = "loaded" /\ UNCHANGED <<out, exitStatus>>
       ELSE /\ out' = Append(out, NotInstalledLine)
            /\ exitStatus' = Some(1)
            /\ pc' = "exited"
    /\ UNCHANGED <<mode, dotenvInstalled, githubInstalled, env, args, g, pr, idx,
                   label_objects, exc, escaped, result, log, remote, prev, ncalls>>

\* --------------------------------------------------------- callers
\* main() up to its call of create_pull_request
Main ==
    /\ pc = "loaded"
    /\ mode = "script"
    /\ args' = MainArgs
    /\ pc' = "get_github_client"
    /\ ncalls' = ncalls + 1
    /\ UNCHANGED <<mode, dotenvInstalled, githubInstalled, env, g, pr, idx,
                   label_objects, exc, escaped, result, log, out, exitStatus,
                   remote, prev>>

\* a caller that imported the module calls create_pull_request, reading the
\* output captured during the preceding call before it does
Invoke ==
    /\ mode = "import"
    /\ pc \in {"loaded", "returned"}
    /\ ~escaped
    /\ ncalls < MaxCalls
    /\ \E h \in Heads, b \in Bases, ls \in LabelArgs :
          args' = [repo_name |-> "owner/repo", title |-> "Add x", body |-> "Adds x.",
                   head |-> h, base |-> b, labels |-> ls]
    /\ prev' = IF pc = "returned"
               THEN Some([args |-> args, ok |-> IsSuccess(result)])
               ELSE None
    /\ pc' = "get_github_client"
    /\ ncalls' = ncalls + 1
    /\ g' = None /\ pr' = None /\ idx' = 1 /\ label_objects' = <<>>
    /\ exc' = None /\ result' = None /\ log' = <<>> /\ out' = <<>>
    /\ UNCHANGED <<mode, dotenvInstalled, githubInstalled, env, escaped,
                   exitStatus, remote>>

\* ------------------------------------------------ create_pull_request
\* g = get_github_client()
GetGithubClient ==
    /\ pc = "get_github_client"
    /\ LET token == LookupToken(env)
       IN  IF TokenMissing(token)
           THEN exc' = Some(MissingTokenMessage) /\ pc' = "except" /\ UNCHANGED g
           ELSE g' = token /\ pc' = "get_repo" /\ UNCHANGED exc
    /\ UNCHANGED <<mode, dotenvInstalled, githubInstalled, env, args, pr, idx,
                   label_objects, escaped, result, log, out, exitStatus, remote,
                   prev, ncalls>>

\* repo = g.get_repo(repo_name)
GetRepo ==
    /\ pc = "get_repo"
    /\ \/ /\ log' = Append(log, Call("get_repo", <<args.repo_name>>, TRUE))
          /\ pc' = "create_pull"
          /\ UNCHANGED exc
       \/ \E m \in RepoErrors :
             /\ log' = Append(log, Call("get_repo", <<args.repo_name>>, FALSE))
             /\ exc' = Some(m)
             /\ pc' = "except"
    /\ UNCHANGED <<mode, dotenvInstalled, githubInstalled, env, args, g, pr, idx,
                   label_objects, escaped, result, out, exitStatus, remote, prev,
                   ncalls>>

\* pr = repo.create_pull(title=..., body=..., head=..., base=...); the remote
\* rejects a pull request whose head and base it already holds
CreatePull ==
    /\ pc = "create_pull"
    /\ \/ /\ ~Exists(CreatePullArgs(args)[3], CreatePullArgs(args)[4])
          /\ log' = Append(log, Call("create_pull", CreatePullArgs(args), TRUE))
          /\ remote' = Append(remote, [head |-> CreatePullArgs(args)[3],
                                       base |-> CreatePullArgs(args)[4]])
          /\ pr' = Some(PullRequest(args.repo_name, Len(remote) + 1))
          /\ pc' = AfterCreatePull(TRUE, args.labels)
          /\ UNCHANGED exc
       \/ \E m \in CreateErrors :
             /\ Exists(CreatePullArgs(args)[3], CreatePullArgs(args)[4]) <=> m = AlreadyExists
             /\ log' = Append(log, Call("create_pull", CreatePullArgs(args), FALSE))
             /\ exc' = Some(m)
             /\ pc' = AfterCreatePull(FALSE, args.labels)
             /\ UNCHANGED <<remote, pr>>
    /\ UNCHANGED <<mode, dotenvInstalled, githubInstalled, env, args, g, idx,
                   label_objects, escaped, result, out, exitStatus, prev, ncalls>>

\* one turn of `for label_name in labels`, and, after the last one, the
\* `if label_objects:` that follows the loop
GetLabel ==
    /\ pc = "get_label"
    /\ idx <= Len(Val(args.labels))
    /\ LET label_name == Val(args.labels)[idx]
           after(objs) == IF NextLabelIndex(idx) <= Len(Val(args.labels)) THEN "get_label"
                          ELSE IF AttachNeeded(objs) THEN "add_to_labels"
                          ELSE "format"
       IN  \/ /\ log' = Append(log, Call("get_label", <<label_name>>, TRUE))
              /\ label_objects' = Append(label_objects, label_name)
              /\ pc' = after(label_objects')
              /\ UNCHANGED <<out, exc>>
           \/ \E m \in LabelErrors :
                 LET h == LabelHandler(label_name, m)
                 IN  /\ log' = Append(log, Call("get_label", <<label_name>>, FALSE))
                     /\ out' = out \o h.printed
                     /\ exc' = IF h.reraise THEN Some(m) ELSE exc
                     /\ pc' = IF h.reraise THEN "except" ELSE after(label_objects)
                     /\ UNCHANGED label_objects
    /\ idx' = NextLabelIndex(idx)
    /\ UNCHANGED <<mode, dotenvInstalled, githubInstalled, env, args, g, pr,
                   escaped, result, exitStatus, remote, prev, ncalls>>

\* pr.add_to_labels(*label_objects)
AddToLabels ==
    /\ pc = "add_to_labels"
    /\ \/ /\ log' = Append(log, Call("add_to_labels", label_objects, TRUE))
          /\ pc' = "format"
          /\ UNCHANGED exc
       \/ \E m \in AddErrors :
             /\ log' = Append(log, Call("add_to_labels", label_objects, FALSE))
             /\ exc' = Some(m)
             /\ pc' = "except"
    /\ UNCHANGED <<mode, dotenvInstalled, githubInstalled, env, args, g, pr, idx,
                   label_objects, escaped, result, out, exitStatus, remote, prev,
                   ncalls>>

\* return f"Successfully created PR #{pr.number}: {pr.html_url}"; reading the
\* PR's attributes may raise
Format ==
    /\ pc = "format"
    /\ \/ /\ result' = Some(SuccessString(Val(pr)))
          /\ pc' = "returned"
          /\ UNCHANGED exc
       \/ \E m \in FormatErrors :
             /\ exc' = Some(m)
             /\ pc' = "except"
             /\ UNCHANGED result
    /\ UNCHANGED <<mode, dotenvInstalled, githubInstalled, env, args, g, pr, idx,
                   label_objects, escaped, log, out, exitStatus, remote, prev,
                   ncalls>>

\* except Exception as e: return f"Error creating GitHub PR: {str(e)}"
\* (an exception that left the function would end a run of the script with
\* a traceback and status 1)
Except ==
    /\ pc = "except"
    /\ LET h == Handler(Val(exc))
       IN  /\ result' = h.result
           /\ escaped' = h.escaped
           /\ pc' = IF h.escaped /\ mode = "script" THEN "exited" ELSE "returned"
           /\ exitStatus' = IF h.escaped /\ mode = "script" THEN Some(1) ELSE exitStatus
    /\ UNCHANGED <<mode, dotenvInstalled, githubInstalled, env, args, g, pr, idx,
                   label_objects, exc, log, out, remote, prev, ncalls>>

\* main() after the call: print(result); return result; the process ends
MainPrint ==
    /\ pc = "returned"
    /\ mode = "script"
    /\ out' = Append(out, IF IsNone(result) THEN <<"None">> ELSE Val(result))
    /\ exitStatus' = Some(MainExitStatus(result))
    /\ pc' = "exited"
    /\ UNCHANGED <<mode, dotenvInstalled, githubInstalled, env, args, g, pr, idx,
                   label_objects, exc, escaped, result, log, remote, prev, ncalls>>

Next ==
    \/ ImportDotenv
    \/ ImportGithub
    \/ Main
    \/ Invoke
    \/ GetGithubClient
    \/ GetRepo
    \/ CreatePull
    \/ GetLabel
    \/ AddToLabels
    \/ Format
    \/ Except
    \/ MainPrint

Spec == Init /\ [][Next]_vars

TypeOK ==
    /\ pc \in {"import_dotenv", "import_github", "loaded", "get_github_client",
               "get_repo", "create_pull", "get_label", "add_to_labels", "format",
               "except", "returned", "exited"}
    /\ ncalls \in 0..MaxCalls

\* ------------------------------------------------- reading the record
Calls(op) == SelectSeq(log, LAMBDA c : c.op = op)
LabelCalls == Calls("get_label")
AttachCalls == Calls("add_to_labels")
CreateCalls == Calls("create_pull")
NamesOf(cs) == [k \in 1..Len(cs) |-> cs[k].args[1]]
Resolved == NamesOf(SelectSeq(log, LAMBDA c : c.op = "get_label" /\ c.ok))
Unresolved == NamesOf(SelectSeq(log, LAMBDA c : c.op = "get_label" /\ ~c.ok))
Failed(op) == \E k \in 1..Len(log) : log[k].op = op /\ ~log[k].ok
Succeeded(op) == \E k \in 1..Len(log) : log[k].op = op /\ log[k].ok
FormatFailed == \E m \in FormatErrors : exc = Some(m)
HoldsValue(v) == v # None /\ v # Some("")
NoCredential == ~HoldsValue(env.PRODUCT_GITHUB_TOKEN) /\ ~HoldsValue(env.GITHUB_TOKEN)
Returned == pc = "returned" /\ ~escaped
IsErrorWith(r, msgs) == \E m \in msgs : r = Some(<<"Error creating GitHub PR: ", m>>)
RequestedLabels == IF args.labels = None THEN <<>> ELSE Val(args.labels)
\* the success line for the pull request the remote holds for this head and base
\* (None when it holds none)
ExpectedSuccess ==
    LET held == {k \in 1..Len(remote) :
                    remote[k] = [head |-> args.head, base |-> args.base]}
        n == CHOOSE k \in held : TRUE
    IN  IF held = {} THEN None
        ELSE Some(<<"Successfully created PR #", ToString(n), ": ",
                    "https://github.com/" \o args.repo_name \o "/pull/" \o ToString(n)>>)

\* C1: create_pull_request never raises: a failure of any step (missing
\* credential, get_repo, create_pull, add_to_labels, formatting) makes it
\* return 'Error creating GitHub PR: <that failure's message>', and a run in
\* which no step failed returns 'Successfully created PR #<number>: <url>'
\* with the number and URL of the pull request the create call returned.
C1_NeverRaises ==
    /\ ~escaped
    /\ pc = "returned" =>
         /\ NoCredential => IsErrorWith(result, {MissingTokenMessage})
         /\ Failed("get_repo") => IsErrorWith(result, RepoErrors)
         /\ Failed("create_pull") => IsErrorWith(result, CreateErrors)
         /\ Failed("add_to_labels") => IsErrorWith(result, AddErrors)
         /\ FormatFailed => IsErrorWith(result, FormatErrors)
         /\ result = IF exc = None THEN ExpectedSuccess
                     ELSE Some(<<"Error creating GitHub PR: ", Val(exc)>>)
         /\ (~NoCredential /\ ~Failed("get_repo") /\ ~Failed("create_pull")
                 /\ ~Failed("add_to_labels") /\ ~FormatFailed) => result = ExpectedSuccess

C1_Witness ==
    /\ pc = "returned"
    /\ FormatFailed
    /\ Len(AttachCalls) = 1
    /\ result = Some(<<"Error creating GitHub PR: ", "502 Bad Gateway">>)

\* C2: when the create call fails, the result is the error string with the
\* underlying message and the invocation makes no get_label and no
\* add_to_labels call, whatever labels is.
C2_NoLabelsAfterFailedCreate ==
    Failed("create_pull") =>
        /\ LabelCalls = <<>>
        /\ AttachCalls = <<>>
        /\ pc \in {"except", "returned", "exited"}
        /\ pc = "returned" => /\ IsErrorWith(result, CreateErrors)
                              /\ result = Some(<<"Error creating GitHub PR: ", Val(exc)>>)

C2_Witness ==
    /\ pc = "returned"
    /\ Failed("create_pull")
    /\ Len(RequestedLabels) = 2
    /\ IsErrorWith(result, {"422 Validation Failed"})

\* the part of C3 about the create call
ExactlyOneCreate ==
    /\ Len(CreateCalls) = 1
    /\ CreateCalls[1].args = <<args.title, args.body, args.head, args.base>>

\* C3 as stated: with valid parameters there is exactly one create call with
\* the title, body, head and base passed in and, whenever labels is
\* non-empty, exactly one add-labels call holding the resolvable labels, also
\* when no label resolves.
C3_Original ==
    (Returned /\ Succeeded("create_pull")) =>
        /\ ExactlyOneCreate
        /\ RequestedLabels # <<>> =>
              /\ Len(AttachCalls) = 1
              /\ AttachCalls[1].args = Resolved

\* C3 amended: exactly one create call with the title, body, head and base
\* passed in; if labels is non-empty and at least one label resolves, exactly
\* one add-labels call holding exactly the resolved labels; if no label
\* resolves (or labels is empty or None), no add-labels call.
C3_Amended ==
    (Returned /\ Succeeded("create_pull")) =>
        /\ ExactlyOneCreate
        /\ IF RequestedLabels # <<>> /\ Resolved # <<>>
           THEN Len(AttachCalls) = 1 /\ AttachCalls[1].args = Resolved
           ELSE AttachCalls = <<>>

C3_Witness ==
    /\ Returned
    /\ Succeeded("create_pull")
    /\ Len(RequestedLabels) = 2
    /\ Resolved = <<>>
    /\ AttachCalls = <<>>
    /\ IsSuccess(result)

\* C4: a get_label failure is not fatal: each unresolved name gets one
\* warning, the remaining labels are still resolved, the attach call holds
\* exactly the resolved labels in input order, and the result is the success
\* string of the created pull request.
C4_LabelFailureNotFatal ==
    (pc = "returned" /\ Failed("get_label") /\ ~Failed("add_to_labels") /\ ~FormatFailed) =>
        /\ result = ExpectedSuccess
        /\ NamesOf(LabelCalls) = RequestedLabels
        /\ Len(out) = Len(Unresolved)
        /\ \A k \in 1..Len(out) : \E m \in LabelErrors :
               out[k] = <<"Warning: Could not find label '", Unresolved[k], "': ", m>>
        /\ \A k \in 1..Len(AttachCalls) : AttachCalls[k].args = Resolved
        /\ Len(AttachCalls) = IF Resolved = <<>> THEN 0 ELSE 1

C4_Witness ==
    /\ pc = "returned"
    /\ RequestedLabels = <<"bug", "needs-review">>
    /\ Unresolved = <<"needs-review">>
    /\ AttachCalls = <<Call("add_to_labels", <<"bug">>, TRUE)>>
    /\ Len(out) = 1
    /\ IsSuccess(result)

\* C5: when neither PRODUCT_GITHUB_TOKEN nor GITHUB_TOKEN holds a non-empty
\* value, the missing-credential error is raised before a client is built and
\* no get_repo, create_pull, get_label or add_to_labels call is made.
C5_NoCallWithoutCredential ==
    NoCredential =>
        /\ g = None
        /\ log = <<>>
        /\ remote = <<>>
        /\ pc \in {"except", "returned"} => exc = Some(MissingTokenMessage)

C5_Witness ==
    /\ env.PRODUCT_GITHUB_TOKEN = Some("")
    /\ env.GITHUB_TOKEN = Some("")
    /\ pc = "returned"
    /\ IsErrorWith(result, {MissingTokenMessage})

\* C6: the client is built with PRODUCT_GITHUB_TOKEN whenever that is
\* non-empty, otherwise with GITHUB_TOKEN when that is non-empty; the lookup
\* fails only when both are unset or empty.
C6_FirstNonEmptyWins ==
    pc \in {"get_repo", "create_pull", "get_label", "add_to_labels", "format",
            "except", "returned"} =>
        IF HoldsValue(env.PRODUCT_GITHUB_TOKEN) THEN g = env.PRODUCT_GITHUB_TOKEN
        ELSE IF HoldsValue(env.GITHUB_TOKEN) THEN g = env.GITHUB_TOKEN
        ELSE g = None /\ exc = Some(MissingTokenMessage)

C6_Witness ==
    /\ env.PRODUCT_GITHUB_TOKEN = Some("")
    /\ env.GITHUB_TOKEN = Some("ghp_fallback")
    /\ g = Some("ghp_fallback")
    /\ pc = "create_pull"

\* C7: a second call with the parameters of a call that succeeded, against a
\* remote that rejects a second pull request for the same head and base,
\* returns an error string (it does not raise), creates no further pull
\* request and makes no label call.
SecondIdenticalCall == prev = Some([args |-> args, ok |-> TRUE])
C7_SecondCallFailsGracefully ==
    (pc = "returned" /\ SecondIdenticalCall) =>
        /\ ~escaped
        /\ result # None
        /\ IsErrorWith(result, RepoErrors \cup {AlreadyExists})
        /\ ~Succeeded("create_pull")
        /\ Cardinality({k \in 1..Len(remote) :
                          remote[k] = [head |-> args.head, base |-> args.base]}) = 1
        /\ LabelCalls = <<>>
        /\ AttachCalls = <<>>

C7_Witness ==
    /\ pc = "returned"
    /\ SecondIdenticalCall
    /\ Len(RequestedLabels) = 2
    /\ IsErrorWith(result, {AlreadyExists})
    /\ Len(remote) = 1

\* side-effecting remote calls made by the run
SideEffects == Len(CreateCalls) + Len(AttachCalls)
IsResultLine(l) ==
    \/ Some(l) = ExpectedSuccess
    \/ IsErrorWith(Some(l), {MissingTokenMessage} \cup RepoErrors \cup CreateErrors
                                \cup AddErrors \cup FormatErrors)
Finished == mode = "script" /\ pc = "exited"

\* C8 as stated: a run of the script makes exactly one side-effecting remote
\* call, prints exactly one line, the success line or the error line, and
\* exits with status 0; the only other exit is the missing client library,
\* status 1, before any credential lookup or remote call.  (Stated for the
\* runs in which the dotenv import succeeded; the others are covered by the
\* amended statement.)
C8_Original ==
    (Finished /\ dotenvInstalled) =>
        IF githubInstalled
        THEN /\ exitStatus = Some(0)
             /\ Len(out) = 1
             /\ IsResultLine(out[1])
             /\ SideEffects = 1
        ELSE /\ exitStatus = Some(1)
             /\ g = None
             /\ log = <<>>

\* C8 amended: a run of the script makes at most one side-effecting remote
\* call (one create_pull, made only after the credential lookup and get_repo
\* succeeded; the success line is printed only if it created the pull
\* request); once both imports succeeded it prints exactly one line, the
\* success line or the error line, and exits with status 0, also on the
\* error line; the only non-zero exits are the two missing-dependency paths
\* at start-up, status 1, before any credential lookup or remote call: the
\* unguarded dotenv import (nothing on standard output) and the guarded
\* client-library import (the install hint on standard output).
C8_Amended ==
    Finished =>
        /\ SideEffects <= 1
        /\ AttachCalls = <<>>
        /\ CreateCalls # <<>> => (g # None /\ Succeeded("get_repo"))
        /\ IF dotenvInstalled /\ githubInstalled
           THEN /\ exitStatus = Some(0)
                /\ Len(out) = 1
                /\ IsResultLine(out[1])
                /\ out[1][1] = "Successfully created PR #" =>
                       (Len(remote) = 1 /\ Succeeded("create_pull"))
                /\ Len(remote) = 1 <=> Succeeded("create_pull")
           ELSE /\ exitStatus = Some(1)
                /\ g = None
                /\ log = <<>>
                /\ remote = <<>>
                /\ out = IF dotenvInstalled
                         THEN <<<<"Error: PyGithub not installed. Install with: pip install PyGithub">>>>
                         ELSE <<>>

C8_Witness ==
    /\ Finished
    /\ exitStatus = Some(0)
    /\ SideEffects = 0
    /\ out = <<<<"Error creating GitHub PR: ", MissingTokenMessage>>>>

\* C9: when the create call succeeded and add_to_labels then fails, no call
\* follows the failed one (nothing closes or deletes the pull request), the
\* pull request stays on the remote, and the failure is caught in
\* create_pull_request and returned as the error string.
C9_NoRollback ==
    (Succeeded("create_pull") /\ Failed("add_to_labels")) =>
        /\ ~escaped
        /\ log[Len(log)].op = "add_to_labels"
        /\ Len(CreateCalls) = 1
        /\ \E k \in 1..Len(remote) :
              /\ remote[k] = [head |-> args.head, base |-> args.base]
              /\ pr = Some([number |-> k,
                            html_url |-> "https://github.com/" \o args.repo_name
                                            \o "/pull/" \o ToString(k)])
        /\ pc \in {"except", "returned"}
        /\ pc = "returned" => IsErrorWith(result, AddErrors)

C9_Witness ==
    /\ pc = "returned"
    /\ Succeeded("create_pull")
    /\ Failed("add_to_labels")
    /\ Len(remote) = 1
    /\ IsErrorWith(result, {"403 Forbidden"})

\* C10: the remote calls of an invocation come in a fixed order: nothing
\* before the credential lookup succeeded, then at most one get_repo, then at
\* most one create_pull, then one get_label per element of labels in input
\* order (duplicates included), then at most one add_to_labels after every
\* get_label; no get_label and no add_to_labels when labels is None or
\* empty; and a success string only after create_pull succeeded.
LoopDone == pc \in {"add_to_labels", "format", "except", "returned"}
C10_CallOrder ==
    /\ g = None => log = <<>>
    /\ Len(Calls("get_repo")) <= 1
    /\ Len(CreateCalls) <= 1
    /\ Len(AttachCalls) <= 1
    /\ \A k \in 1..Len(log) :
          /\ log[k].op = "get_repo" => k = 1
          /\ log[k].op = "create_pull" => (k = 2 /\ log[1].ok)
          /\ log[k].op = "get_label" =>
                (k > 2 /\ log[2].ok /\ \A j \in 3..k : log[j].op = "get_label")
          /\ log[k].op = "add_to_labels" =>
                (k = Len(log) /\ k = 2 + Len(RequestedLabels) + 1)
    /\ NamesOf(LabelCalls) = SubSeq(RequestedLabels, 1, Len(LabelCalls))
    /\ (Succeeded("create_pull") /\ LoopDone) => NamesOf(LabelCalls) = RequestedLabels
    /\ RequestedLabels = <<>> => (LabelCalls = <<>> /\ AttachCalls = <<>>)
    /\ IsSuccess(result) => Succeeded("create_pull")

C10_Witness ==
    /\ pc = "returned"
    /\ RequestedLabels = <<"bug", "bug">>
    /\ Len(LabelCalls) = 2
    /\ Len(AttachCalls) = 1
    /\ IsSuccess(result)

====
